---- MODULE Spec2Model ----
(***************************************************************************)
(* Task Management REST API (Week18_Task_Management_NodeJS).               *)
(*                                                                         *)
(* Three of the repository's implementations of the same five endpoints    *)
(* are modelled side by side, each over its own store:                     *)
(*   "p0"  src/unnamed/part_000  (fs/promises, getAllTasks / writeTasks)   *)
(*   "p2"  src/unnamed/part_002  (validateTaskData, createdBy/assignedBy)  *)
(*   "p3"  src/unnamed/part_003  (module-level array, writeFileSync)       *)
(* The GET handlers and the helpers of src/routes/tasks.js are, line for   *)
(* line, those of part_000: "p0" stands for both.                          *)
(* One behaviour runs one implementation (impl, chosen in Init).  In Spec   *)
(* and SpecHostile every step is one HTTP request handled to completion;   *)
(* the request's time is an input of the step (the clock never goes back). *)
(* In SpecRace two requests are in flight together and a step is the part  *)
(* of a handler between two suspension points.                             *)
(***************************************************************************)
EXTENDS Integers, Sequences, FiniteSets

VARIABLES
    impl,      \* which implementation this behaviour runs: "p0", "p2", "p3"
    file,      \* data/tasks.json, as the array JSON.parse gives
    mem,       \* part_003's module-level `tasks` array (<<>> in p0 and p2)
    now,       \* the last value the clock showed (ms)
    last,      \* the last request and its response
    assigned,  \* history: the ids given by Creates that responded 201
    trip,      \* history: progress of a Create, Get, Update, Get round trip
    race       \* the requests in flight when two are handled concurrently

vars == <<impl, file, mem, now, last, assigned, trip, race>>

----------------------------------------------------------------------------
(* Bounds of the model.                                                    *)

\* most records the store holds (a Create beyond it is not explored)
MaxTasks == 2
\* the clock runs over StartTime .. StartTime + MaxClock
MaxClock == 1
\* the greatest numeric id a Create may assign (p0, p2)
MaxId == 3

\* the clock's value when the server starts (Date.now() is far above the
\* ids 1, 2, ... of the initial file: two digits keep that apart)
StartTime == 10

----------------------------------------------------------------------------
(* JavaScript values an id can hold: a number, NaN, a string (a sequence   *)
(* of one-character strings), null, undefined.                             *)

Num(n) == [t |-> "num", n |-> n, s |-> <<>>]
Str(s) == [t |-> "str", n |-> 0, s |-> s]
NaN == [t |-> "nan", n |-> 0, s |-> <<>>]
Null == [t |-> "null", n |-> 0, s |-> <<>>]
Undef == [t |-> "undef", n |-> 0, s |-> <<>>]

DigitChars == <<"0", "1", "2", "3", "4", "5", "6", "7", "8", "9">>

IsDigit(c) == \E d \in 1..10 : DigitChars[d] = c

DigitOf(c) == (CHOOSE d \in 1..10 : DigitChars[d] = c) - 1

\* Number.prototype.toString for a non-negative integer
RECURSIVE NumberToString(_)
NumberToString(n) ==
    IF n < 10 THEN <<DigitChars[n + 1]>>
    ELSE NumberToString(n \div 10) \o <<DigitChars[(n % 10) + 1]>>

\* the value of a sequence of digits
RECURSIVE DigitsValue(_)
DigitsValue(s) ==
    IF s = <<>> THEN 0
    ELSE 10 * DigitsValue(SubSeq(s, 1, Len(s) - 1)) + DigitOf(s[Len(s)])

\* the longest prefix of s made of digits
RECURSIVE LeadingDigits(_)
LeadingDigits(s) ==
    IF s = <<>> \/ ~IsDigit(Head(s)) THEN <<>>
    ELSE <<Head(s)>> \o LeadingDigits(Tail(s))

\* String(v)
StringOf(v) ==
    CASE v.t = "num" -> NumberToString(v.n)
      [] v.t = "str" -> v.s
      [] v.t = "nan" -> <<"N", "a", "N">>
      [] v.t = "null" -> <<"n", "u", "l", "l">>
      [] v.t = "undef" -> <<"u", "n", "d", "e", "f", "i", "n", "e", "d">>

\* v.toString() throws a TypeError on null and undefined
ToStringThrows(v) == v.t \in {"null", "undef"}

\* parseInt(v): the leading digits of String(v), NaN when there are none
ParseInt(v) ==
    LET d == LeadingDigits(StringOf(v))
    IN  IF d = <<>> THEN NaN ELSE Num(DigitsValue(d))

\* ToNumber(v), the coercion Math.max applies to each argument
ToNumber(v) ==
    CASE v.t = "num" -> v
      [] v.t = "nan" -> NaN
      [] v.t = "null" -> Num(0)
      [] v.t = "undef" -> NaN
      [] v.t = "str" ->
            IF v.s = <<>> THEN Num(0)
            ELSE IF LeadingDigits(v.s) = v.s THEN Num(DigitsValue(v.s))
            ELSE NaN

\* Math.max(...xs) for a non-empty sequence of numbers: NaN if any is NaN
MathMax(xs) ==
    IF \E i \in 1..Len(xs) : xs[i].t = "nan" THEN NaN
    ELSE Num(CHOOSE m \in {xs[i].n : i \in 1..Len(xs)} :
                \A i \in 1..Len(xs) : xs[i].n <= m)

\* x + 1
PlusOne(x) == IF x.t = "nan" THEN NaN ELSE Num(x.n + 1)

\* what JSON.stringify followed by JSON.parse makes of an id: NaN becomes
\* null, every other value is kept
JsonValue(v) == IF v.t = "nan" THEN Null ELSE v

----------------------------------------------------------------------------
(* Text fields.  A text field holds a string; Absent stands for a key that *)
(* is missing (undefined), NullText for null.                              *)

Absent == "<absent>"
NullText == "<null>"

\* !x of a text field
Falsy(x) == x \in {Absent, NullText, ""}

\* a || b
OrElse(a, b) == IF Falsy(a) THEN b ELSE a

\* createdBy / assignedBy: obj says whether the value is an object at all
NoUser == [obj |-> FALSE, id |-> Undef, name |-> Absent, email |-> Absent]

ValidUser == [obj |-> TRUE, id |-> Undef, name |-> "n", email |-> "e"]

\* the characters of the texts that names and name filters take
Chars(x) ==
    CASE x = "" -> <<>>
      [] x = "bob" -> <<"b", "o", "b">>
      [] x = "BO" -> <<"B", "O">>
      [] x = "n" -> <<"n">>

\* String.prototype.toLowerCase, by character
LowerChar(c) ==
    CASE c = "B" -> "b"
      [] c = "O" -> "o"
      [] OTHER -> c

ToLowerCase(cs) == [i \in 1..Len(cs) |-> LowerChar(cs[i])]

\* a.includes(q)
Includes(a, q) ==
    \E i \in 0..(Len(a) - Len(q)) : SubSeq(a, i + 1, i + Len(q)) = q

\* x.toLowerCase() throws a TypeError when x is null or undefined
LowerThrows(x) == x \in {Absent, NullText}

\* x.toLowerCase().includes(q.toLowerCase())
NameMatches(x, q) ==
    Includes(ToLowerCase(Chars(x)), ToLowerCase(Chars(q)))

----------------------------------------------------------------------------
(* Tasks and request bodies.                                               *)

validStatuses == {"pending", "in-progress", "completed", "cancelled"}
validPriorities == {"low", "medium", "high", "urgent"}

\* a subtask: its id is a string (<<>> when it has none), completed is
\* FALSE when it has none
Subtask(id, title, description, completed) ==
    [id |-> id, title |-> title, description |-> description,
     completed |-> completed]

\* the value of a subtasks key: an array of subtasks
SubtaskArray(items) == [arr |-> TRUE, items |-> items]

\* a subtasks key that the body does not carry
NoSubtasks == [arr |-> FALSE, items |-> <<>>]

\* a record of the collection
Task(id, title, description, status, priority, assignedTo, createdBy, assignedBy, subtasks, createdAt, updatedAt) ==
    [id |-> id, title |-> title, description |-> description,
     status |-> status, priority |-> priority, assignedTo |-> assignedTo,
     createdBy |-> createdBy, assignedBy |-> assignedBy,
     subtasks |-> subtasks, createdAt |-> createdAt, updatedAt |-> updatedAt]

\* JSON.parse(JSON.stringify(tasks)): what a written array reads back as
JsonUser(u) == [u EXCEPT !.id = JsonValue(u.id)]
JsonTask(t) ==
    [t EXCEPT !.id = JsonValue(t.id), !.createdBy = JsonUser(t.createdBy),
              !.assignedBy = JsonUser(t.assignedBy)]
JsonTasks(ts) == [i \in 1..Len(ts) |-> JsonTask(ts[i])]

\* a createdAt key that the body does not carry
NoStamp == -1

\* req.body: every key a handler reads or copies; Absent / Undef / NoUser /
\* NoSubtasks / NoStamp = not sent
Body(id, title, description, status, priority, assignedTo, createdBy, assignedBy, subtasks, createdAt) ==
    [id |-> id, title |-> title, description |-> description,
     status |-> status, priority |-> priority, assignedTo |-> assignedTo,
     createdBy |-> createdBy, assignedBy |-> assignedBy,
     subtasks |-> subtasks, createdAt |-> createdAt]

NoBody ==
    Body(Undef, Absent, Absent, Absent, Absent, Absent, NoUser, NoUser,
         NoSubtasks, NoStamp)

\* the values of a body's keys
BodyTitles == {Absent, "", "a", "b"}
BodyDescriptions == {Absent, "d"}
BodyStatuses == {Absent, "pending", "completed", "bogus"}
BodyPriorities == {Absent, "low", "bogus"}
BodyAssignees == {Absent, "bob"}

----------------------------------------------------------------------------
(* The store and the helpers every handler shares.                         *)

\* a read that gives the file's records even when reading fails: what
\* getAllTasks() must not be
getAllTasksUnfailing(f, readOk) == f

\* getAllTasks(): the parsed file, [] when reading or parsing fails
getAllTasks(f, readOk) == IF readOk THEN f ELSE <<>>

\* the file after writeTasks(tasks) / writeFileSync(..., JSON.stringify(tasks));
\* a write that fails throws and leaves the file as it was
writeTasks(f, tasks, writeOk) == IF writeOk THEN JsonTasks(tasks) ELSE f

\* a removal that drops the last record, whichever was asked for: what
\* tasks.splice(i, 1) must not be
SpliceLast(ts, i) == SubSeq(ts, 1, Len(ts) - 1)

\* tasks.splice(i, 1)
Splice(ts, i) == SubSeq(ts, 1, i - 1) \o SubSeq(ts, i + 1, Len(ts))

\* the outcome of a handler: the response and the store it leaves
Outcome(status, data, f, m) ==
    [status |-> status, data |-> data, file |-> f, mem |-> m]

\* res.json(task): the record as the client reads it
Sent(task) == <<JsonTask(task)>>

\* req.query of GET /tasks; Absent = the parameter is not in the URL
Query(status, priority, assignedTo, createdBy, assignedBy) ==
    [status |-> status, priority |-> priority, assignedTo |-> assignedTo,
     createdBy |-> createdBy, assignedBy |-> assignedBy]

NoQuery == Query(Absent, Absent, Absent, Absent, Absent)

\* a response without a count key
NoCount == -1

\* the outcome of GET /tasks: the response (status, data, count) and the
\* store, which it leaves alone
ListOutcome(status, data, count, f, m) ==
    [status |-> status, data |-> data, count |-> count, file |-> f,
     mem |-> m]

\* a status filter that keeps every record: what the filter must not be
KeepAll(ts, s) == ts

\* filteredTasks.filter((task) => task.status === req.query.status)
ByStatus(ts, s) == LET Keep(t) == t.status = s IN SelectSeq(ts, Keep)

\* filteredTasks.filter((task) => task.priority === req.query.priority)
ByPriority(ts, p) == LET Keep(t) == t.priority = p IN SelectSeq(ts, Keep)

\* task.id === id, with id the (string) path parameter
StrictEq(v, id) == v.t = "str" /\ v.s = id

\* String(task.id) === id
TextEq(v, id) == StringOf(v) = id

\* tasks.find / tasks.findIndex with task.id === id: the first match, 0 if none
FindStrict(ts, id) ==
    IF \E i \in 1..Len(ts) : StrictEq(ts[i].id, id)
    THEN CHOOSE i \in 1..Len(ts) :
            /\ StrictEq(ts[i].id, id)
            /\ \A j \in 1..(i - 1) : ~StrictEq(ts[j].id, id)
    ELSE 0

\* tasks.findIndex with String(task.id) === id
FindText(ts, id) ==
    IF \E i \in 1..Len(ts) : TextEq(ts[i].id, id)
    THEN CHOOSE i \in 1..Len(ts) :
            /\ TextEq(ts[i].id, id)
            /\ \A j \in 1..(i - 1) : ~TextEq(ts[j].id, id)
    ELSE 0

\* tasks.findIndex with task.id.toString() === id: the first match, 0 if
\* none, -1 when the scan reaches a record whose id is null or undefined
\* first (toString throws)
FindToString(ts, id) ==
    LET Stops(i) == ToStringThrows(ts[i].id) \/ TextEq(ts[i].id, id)
    IN  IF \E i \in 1..Len(ts) : Stops(i)
        THEN LET i == CHOOSE k \in 1..Len(ts) :
                        Stops(k) /\ \A j \in 1..(k - 1) : ~Stops(j)
             IN  IF ToStringThrows(ts[i].id) THEN -1 ELSE i
        ELSE 0

----------------------------------------------------------------------------
(* src/unnamed/part_000                                                    *)

P0GetById(f, id, readOk) ==
    LET tasks == getAllTasks(f, readOk)
        i == FindStrict(tasks, id)
    IN  IF i = 0 THEN Outcome(404, <<>>, f, <<>>)
        ELSE Outcome(200, Sent(tasks[i]), f, <<>>)

\* GET /tasks (the same text in src/routes/tasks.js): each filter is applied
\* when its parameter is truthy, to what the filters before it kept; the
\* assignedTo filter throws on a record whose assignedTo is null
P0List(f, q, readOk) ==
    LET tasks == getAllTasks(f, readOk)
        s1 == IF Falsy(q.status) THEN tasks ELSE ByStatus(tasks, q.status)
        s2 == IF Falsy(q.priority) THEN s1 ELSE ByPriority(s1, q.priority)
        Keep(t) == NameMatches(t.assignedTo, q.assignedTo)
    IN  IF Falsy(q.assignedTo)
        THEN ListOutcome(200, JsonTasks(s2), Len(s2), f, <<>>)
        ELSE IF \E i \in 1..Len(s2) : LowerThrows(s2[i].assignedTo)
        THEN ListOutcome(500, <<>>, NoCount, f, <<>>)
        ELSE ListOutcome(200, JsonTasks(SelectSeq(s2, Keep)),
                         Len(SelectSeq(s2, Keep)), f, <<>>)

\* an id scheme that counts the records
P0NewIdByLength(tasks) == Num(Len(tasks) + 1)

\* Math.max(...tasks.map((task) => parseInt(task.id))) + 1, or 1
P0NewId(tasks) ==
    IF Len(tasks) > 0
    THEN PlusOne(MathMax([i \in 1..Len(tasks) |-> ParseInt(tasks[i].id)]))
    ELSE Num(1)

\* a check of the required fields that leaves the title out: what the POST
\* handler must not be
P0CreateRejectsNoTitle(body) ==
    \/ Falsy(body.description)
    \/ Falsy(body.status)
    \/ Falsy(body.priority)

\* the check of the required fields made by the POST handler
P0CreateRejects(body) ==
    \/ Falsy(body.title)
    \/ Falsy(body.description)
    \/ Falsy(body.status)
    \/ Falsy(body.priority)

\* t1, t2: the two readings of the clock (createdAt, updatedAt)
P0Create(f, body, readOk, writeOk, t1, t2) ==
    IF P0CreateRejects(body) THEN Outcome(400, <<>>, f, <<>>)
    ELSE
        LET tasks == getAllTasks(f, readOk)
            newTask == Task(P0NewId(tasks), body.title, body.description,
                            body.status, body.priority, NullText, NoUser,
                            NoUser, SubtaskArray(<<>>), t1, t2)
        IN  IF writeOk
            THEN Outcome(201, Sent(newTask),
                         writeTasks(f, Append(tasks, newTask), writeOk), <<>>)
            ELSE Outcome(500, <<>>, f, <<>>)

\* the record the PUT handler leaves at tasks[taskIndex]
P0Updated(old, body, t) ==
    [old EXCEPT !.title = body.title, !.description = body.description]

P0Update(f, id, body, readOk, writeOk, t) ==
    IF Falsy(body.title) \/ Falsy(body.description)
    THEN Outcome(400, <<>>, f, <<>>)
    ELSE
        LET tasks == getAllTasks(f, readOk)
            i == FindText(tasks, id)
        IN  IF i = 0 THEN Outcome(404, <<>>, f, <<>>)
            ELSE LET tasks2 == [tasks EXCEPT ![i] = P0Updated(tasks[i], body, t)]
                 IN  IF writeOk
                     THEN Outcome(200, Sent(tasks2[i]),
                                  writeTasks(f, tasks2, writeOk), <<>>)
                     ELSE Outcome(500, <<>>, f, <<>>)

P0Delete(f, id, readOk, writeOk) ==
    LET tasks == getAllTasks(f, readOk)
        i == FindText(tasks, id)
    IN  IF i = 0 THEN Outcome(404, <<>>, f, <<>>)
        ELSE IF writeOk
             THEN Outcome(200, Sent(tasks[i]),
                          writeTasks(f, Splice(tasks, i), writeOk), <<>>)
             ELSE Outcome(500, <<>>, f, <<>>)

----------------------------------------------------------------------------
(* src/unnamed/part_002                                                    *)

\* the presence checks of validateTaskData alone, without the two
\* enumeration checks
validateTaskDataFieldsOnly(body) ==
    /\ ~Falsy(body.title)
    /\ ~Falsy(body.description)
    /\ ~Falsy(body.status)
    /\ ~Falsy(body.priority)

\* validateTaskData(taskData).isValid
validateTaskData(body) ==
    /\ ~Falsy(body.title)
    /\ ~Falsy(body.description)
    /\ ~Falsy(body.status)
    /\ ~Falsy(body.priority)
    /\ body.status \in validStatuses
    /\ body.priority \in validPriorities

P2GetById(f, id, readOk) ==
    LET tasks == getAllTasks(f, readOk)
        i == FindStrict(tasks, id)
    IN  IF i = 0 THEN Outcome(404, <<>>, f, <<>>)
        ELSE Outcome(200, Sent(tasks[i]), f, <<>>)

\* task.createdBy.name.toLowerCase() throws when createdBy is null or has
\* no name
UserNameThrows(u) == ~u.obj \/ LowerThrows(u.name)

\* GET /tasks: filters by status, createdBy, assignedBy, priority and
\* assignedTo, in that order; stage k is <<threw, kept>> after k filters
P2List(f, q, readOk) ==
    LET tasks == getAllTasks(f, readOk)
        s1 == IF Falsy(q.status) THEN tasks ELSE ByStatus(tasks, q.status)
        KeepC(t) == NameMatches(t.createdBy.name, q.createdBy)
        t2 == ~Falsy(q.createdBy)
                /\ \E i \in 1..Len(s1) : UserNameThrows(s1[i].createdBy)
        s2 == IF Falsy(q.createdBy) \/ t2 THEN s1 ELSE SelectSeq(s1, KeepC)
        KeepB(t) == NameMatches(t.assignedBy.name, q.assignedBy)
        t3 == ~t2 /\ ~Falsy(q.assignedBy)
                /\ \E i \in 1..Len(s2) : UserNameThrows(s2[i].assignedBy)
        s3 == IF Falsy(q.assignedBy) \/ t2 \/ t3 THEN s2
              ELSE SelectSeq(s2, KeepB)
        s4 == IF Falsy(q.priority) THEN s3 ELSE ByPriority(s3, q.priority)
        KeepA(t) == NameMatches(t.assignedTo, q.assignedTo)
        t5 == ~t2 /\ ~t3 /\ ~Falsy(q.assignedTo)
                /\ \E i \in 1..Len(s4) : LowerThrows(s4[i].assignedTo)
        s5 == IF Falsy(q.assignedTo) \/ t2 \/ t3 \/ t5 THEN s4
              ELSE SelectSeq(s4, KeepA)
    IN  IF t2 \/ t3 \/ t5
        THEN ListOutcome(500, <<>>, NoCount, f, <<>>)
        ELSE ListOutcome(200, JsonTasks(s5), Len(s5), f, <<>>)

\* Math.max(...tasks.map((task) => task.id)) + 1, or 1
P2NewId(tasks) ==
    IF Len(tasks) > 0
    THEN PlusOne(MathMax([i \in 1..Len(tasks) |-> ToNumber(tasks[i].id)]))
    ELSE Num(1)

\* the createdBy / assignedBy object built from the body's, null if the
\* body's is no object
P2User(u, newId) ==
    IF u.obj
    THEN [obj |-> TRUE, id |-> newId, name |-> OrElse(u.name, ""),
          email |-> OrElse(u.email, "")]
    ELSE NoUser

\* !user || !user.name || !user.email
P2UserRejected(u) == ~u.obj \/ Falsy(u.name) \/ Falsy(u.email)

\* `${newId}.${index + 1}`
SubtaskId(newId, n) == StringOf(newId) \o <<".">> \o NumberToString(n)

\* the subtasks of the created task: the body's, each with a new id, or []
P2Subtasks(sub, newId) ==
    IF sub.arr
    THEN SubtaskArray(
            [n \in 1..Len(sub.items) |->
                Subtask(SubtaskId(newId, n), OrElse(sub.items[n].title, ""),
                        OrElse(sub.items[n].description, ""),
                        sub.items[n].completed)])
    ELSE SubtaskArray(<<>>)

P2Create(f, body, readOk, writeOk, t1, t2) ==
    IF ~validateTaskData(body) THEN Outcome(400, <<>>, f, <<>>)
    ELSE
        LET tasks == getAllTasks(f, readOk)
            newId == P2NewId(tasks)
            createdBy == P2User(body.createdBy, newId)
            assignedBy == P2User(body.assignedBy, newId)
            createdTask == Task(newId, body.title, body.description,
                                body.status, body.priority,
                                OrElse(body.assignedTo, ""), createdBy,
                                assignedBy, P2Subtasks(body.subtasks, newId),
                                t1, t2)
        IN  IF P2UserRejected(createdBy) \/ P2UserRejected(assignedBy)
            THEN Outcome(400, <<>>, f, <<>>)
            ELSE IF writeOk
                 THEN Outcome(201, Sent(createdTask),
                              writeTasks(f, Append(tasks, createdTask), writeOk),
                              <<>>)
                 ELSE Outcome(500, <<>>, f, <<>>)

\* { ...tasks[taskIndex], ...updateData, updatedAt: new Date().toISOString() }
P2Updated(old, body, t) ==
    [id |-> IF body.id = Undef THEN old.id ELSE body.id,
     title |-> IF body.title = Absent THEN old.title ELSE body.title,
     description |->
        IF body.description = Absent THEN old.description
        ELSE body.description,
     status |-> IF body.status = Absent THEN old.status ELSE body.status,
     priority |->
        IF body.priority = Absent THEN old.priority ELSE body.priority,
     assignedTo |->
        IF body.assignedTo = Absent THEN old.assignedTo ELSE body.assignedTo,
     createdBy |->
        IF body.createdBy = NoUser THEN old.createdBy ELSE body.createdBy,
     assignedBy |->
        IF body.assignedBy = NoUser THEN old.assignedBy ELSE body.assignedBy,
     subtasks |->
        IF body.subtasks = NoSubtasks THEN old.subtasks ELSE body.subtasks,
     createdAt |->
        IF body.createdAt = NoStamp THEN old.createdAt ELSE body.createdAt,
     updatedAt |-> t]

P2Update(f, id, body, readOk, writeOk, t) ==
    IF ~validateTaskData(body) THEN Outcome(400, <<>>, f, <<>>)
    ELSE
        LET tasks == getAllTasks(f, readOk)
            i == FindToString(tasks, id)
        IN  IF i = -1 THEN Outcome(500, <<>>, f, <<>>)
            ELSE IF i = 0 THEN Outcome(404, <<>>, f, <<>>)
            ELSE LET updatedTask == P2Updated(tasks[i], body, t)
                     tasks2 == [tasks EXCEPT ![i] = updatedTask]
                 IN  IF writeOk
                     THEN Outcome(200, Sent(updatedTask),
                                  writeTasks(f, tasks2, writeOk), <<>>)
                     ELSE Outcome(500, <<>>, f, <<>>)

P2Delete(f, id, readOk, writeOk) ==
    LET tasks == getAllTasks(f, readOk)
        i == FindToString(tasks, id)
    IN  IF i = -1 THEN Outcome(500, <<>>, f, <<>>)
        ELSE IF i = 0 THEN Outcome(404, <<>>, f, <<>>)
        ELSE IF writeOk
             THEN Outcome(200, Sent(tasks[i]),
                          writeTasks(f, Splice(tasks, i), writeOk), <<>>)
             ELSE Outcome(500, <<>>, f, <<>>)

----------------------------------------------------------------------------
(* src/unnamed/part_003: the handlers work on the module-level array m and *)
(* write it to the file; they never read the file again.                   *)

\* generateId(): `${Date.now()}`
generateId(t) == Str(NumberToString(t))

P3GetById(f, m, id) ==
    LET i == FindStrict(m, id)
    IN  IF i = 0 THEN Outcome(404, <<>>, f, m)
        ELSE Outcome(200, Sent(m[i]), f, m)

\* GET /tasks: filters the module-level array by strict equality; the
\* response has no count, and nothing here can throw
P3List(f, m, q) ==
    LET s1 == IF Falsy(q.status) THEN m ELSE ByStatus(m, q.status)
        s2 == IF Falsy(q.priority) THEN s1 ELSE ByPriority(s1, q.priority)
        Keep(t) == t.assignedTo = q.assignedTo
        s3 == IF Falsy(q.assignedTo) THEN s2 ELSE SelectSeq(s2, Keep)
    IN  ListOutcome(200, JsonTasks(s3), NoCount, f, m)

\* the check of the required fields made by the POST and PUT handlers
P3Rejects(body) ==
    \/ Falsy(body.title)
    \/ Falsy(body.description)
    \/ Falsy(body.status)
    \/ Falsy(body.priority)

\* t1: the clock read for `now`; t2: the clock read by generateId()
\* Array.isArray(subtasks) ? subtasks : []
P3Subtasks(sub) == IF sub.arr THEN sub ELSE SubtaskArray(<<>>)

P3Create(f, m, body, writeOk, t1, t2) ==
    IF P3Rejects(body) THEN Outcome(400, <<>>, f, m)
    ELSE
        LET newTask == Task(generateId(t2), body.title, body.description,
                            body.status, body.priority,
                            OrElse(body.assignedTo, NullText), NoUser, NoUser,
                            P3Subtasks(body.subtasks), t1, t1)
            m2 == Append(m, newTask)
        IN  IF writeOk
            THEN Outcome(201, Sent(newTask), writeTasks(f, m2, writeOk), m2)
            ELSE Outcome(500, <<>>, f, m2)

\* a replacement record that keeps the old updatedAt: what the PUT handler
\* must not write
P3UpdatedStale(old, body, t) ==
    Task(old.id, body.title, body.description, body.status, body.priority,
         OrElse(body.assignedTo, NullText), NoUser, NoUser,
         P3Subtasks(body.subtasks), old.createdAt, old.updatedAt)

\* the record the PUT handler puts at tasks[taskIndex]
P3Updated(old, body, t) ==
    Task(old.id, body.title, body.description, body.status, body.priority,
         OrElse(body.assignedTo, NullText), NoUser, NoUser,
         P3Subtasks(body.subtasks), old.createdAt, t)

P3Update(f, m, id, body, writeOk, t) ==
    LET i == FindStrict(m, id)
    IN  IF i = 0 THEN Outcome(404, <<>>, f, m)
        ELSE IF P3Rejects(body) THEN Outcome(400, <<>>, f, m)
        ELSE LET updatedTask == P3Updated(m[i], body, t)
                 m2 == [m EXCEPT ![i] = updatedTask]
             IN  IF writeOk
                 THEN Outcome(200, Sent(updatedTask),
                              writeTasks(f, m2, writeOk), m2)
                 ELSE Outcome(500, <<>>, f, m2)

P3Delete(f, m, id, writeOk) ==
    LET i == FindStrict(m, id)
    IN  IF i = 0 THEN Outcome(404, <<>>, f, m)
        ELSE LET m2 == Splice(m, i)
             IN  IF writeOk
                 THEN Outcome(200, Sent(m[i]), writeTasks(f, m2, writeOk), m2)
                 ELSE Outcome(500, <<>>, f, m2)

----------------------------------------------------------------------------
(* Requests.  The properties quantify over every body of PlainBodies and   *)
(* P3Bodies; the bodies the model sends, which make the reachable stores,  *)
(* are a few of them.                                                      *)

\* title, description, status and priority, and nothing else
Plain(ti, de, st, pr) ==
    Body(Undef, ti, de, st, pr, Absent, NoUser, NoUser, NoSubtasks, NoStamp)

PlainBodies ==
    {Plain(ti, de, st, pr) :
        ti \in BodyTitles, de \in BodyDescriptions,
        st \in BodyStatuses, pr \in BodyPriorities}

\* b with a createdBy and an assignedBy that part_002 accepts
WithUsers(b) == [b EXCEPT !.createdBy = ValidUser, !.assignedBy = ValidUser]

\* bodies over the keys part_003 reads
P3Bodies ==
    {[b EXCEPT !.assignedTo = a] : b \in PlainBodies, a \in BodyAssignees}

\* a createdAt a body can carry: a time after every reading of the clock
LateStamp == StartTime + MaxClock + 1

SentCreates(i) ==
    LET valid == Plain("a", "d", "pending", "low")
    IN  {valid, Plain(Absent, "d", "pending", "low"),
         Plain("a", "d", "bogus", "low")}
            \cup (IF i = "p2"
                  THEN {WithUsers(valid)}
                  ELSE {})

SentUpdates(i) ==
    LET valid == Plain("b", "d", "completed", "low")
    IN  {valid, Plain("", "d", "completed", "low"),
         Plain("a", "d", "bogus", "low"),
         Plain(Absent, Absent, "completed", Absent)}
            \cup (IF i = "p2"
                  THEN {[valid EXCEPT !.id = Num(1)],
                        [valid EXCEPT !.id = Null]}
                  ELSE {})

\* the :id path parameters the model sends
SentIds(i) ==
    IF i = "p3"
    THEN {<<"1">>, <<"2">>}
            \cup {NumberToString(k) : k \in StartTime..(StartTime + MaxClock)}
    ELSE {NumberToString(k) : k \in 1..(MaxId + 1)}
            \cup (IF i = "p2" THEN {<<"n", "u", "l", "l">>} ELSE {})

\* the query strings of the GET /tasks requests the model sends
SentQueries(i) ==
    {Query("completed", Absent, Absent, Absent, Absent),
     Query("", Absent, Absent, Absent, Absent),
     Query(Absent, Absent, "BO", Absent, Absent)}
        \cup (IF i = "p2"
              THEN {Query("pending", "low", Absent, "n", Absent)}
              ELSE {Query("pending", "low", "bob", Absent, Absent)})

\* the clock read by a handler: not before the last reading
Clock(from) == from..(StartTime + MaxClock)

\* a store that can be read and written
IoOk == {TRUE}

----------------------------------------------------------------------------
(* State.                                                                  *)

NoRequest ==
    [op |-> "none", id |-> <<>>, body |-> NoBody, query |-> NoQuery,
     readOk |-> TRUE, writeOk |-> TRUE, status |-> 0, data |-> <<>>,
     count |-> NoCount]

NoTrip ==
    [stage |-> 0, id |-> <<>>, first |-> <<>>, patch |-> NoBody,
     second |-> <<>>]

\* a request slot of a concurrent run: idle, in flight (arrived, its
\* handler suspended or not yet run) or done (responded)
NoSlot ==
    [stage |-> "idle", op |-> "none", id |-> <<>>, body |-> NoBody,
     seen |-> <<>>, t1 |-> 0, t2 |-> 0, status |-> 0, data |-> <<>>]

\* no request in flight; base is the store when the first one arrives
NoRace ==
    [base |-> [file |-> <<>>, mem |-> <<>>], slots |-> <<NoSlot, NoSlot>>]

\* the records of data/tasks.json when the server starts
SeedUser(id) ==
    [obj |-> TRUE, id |-> Str(id), name |-> "n", email |-> "e"]

SeedTask(id, user) ==
    Task(id, "a", "d", "pending", "low", "bob", user, user,
         SubtaskArray(<<>>), StartTime - 1, StartTime - 1)

SeedFiles(i) ==
    LET u == IF i = "p2" THEN SeedUser(<<"1">>) ELSE NoUser
        one == SeedTask(Str(<<"1">>), u)
        two == SeedTask(IF i = "p3" THEN Str(<<"2">>) ELSE Num(2), u)
    IN  {<<>>, <<one, two>>}

Init ==
    /\ impl \in {"p0", "p2", "p3"}
    /\ file \in SeedFiles(impl)
    /\ mem = IF impl = "p3" THEN file ELSE <<>>
    /\ now = StartTime
    /\ last = NoRequest
    /\ assigned = {}
    /\ trip = NoTrip
    /\ race = NoRace

\* the round trip Create, GetById, Update, GetById on the created task
NextTrip(op, id, body, out) ==
    CASE op = "create" /\ out.status = 201 ->
            [NoTrip EXCEPT !.stage = 1, !.id = StringOf(out.data[1].id)]
      [] op = "get" /\ trip.stage = 1 /\ id = trip.id ->
            [trip EXCEPT !.stage = 2, !.first = out.data]
      [] op = "update" /\ trip.stage = 2 /\ id = trip.id /\ out.status = 200 ->
            [trip EXCEPT !.stage = 3, !.patch = body]
      [] op = "get" /\ trip.stage = 3 /\ id = trip.id ->
            [trip EXCEPT !.stage = 4, !.second = out.data]
      [] OTHER -> NoTrip

\* the numeric ids of ts stay within the model's bound
IdsBounded(ts) ==
    \A i \in 1..Len(ts) : ts[i].id.t = "num" => ts[i].id.n <= MaxId

\* the response of a handled request is recorded, the store replaced
Respond(op, id, body, readOk, writeOk, t, out) ==
    /\ file' = out.file
    /\ mem' = out.mem
    /\ now' = t
    /\ last' = [op |-> op, id |-> id, body |-> body, query |-> NoQuery,
                readOk |-> readOk, writeOk |-> writeOk,
                status |-> out.status, data |-> out.data, count |-> NoCount]
    /\ assigned' = IF op = "create" /\ out.status = 201
                   THEN assigned \cup {out.data[1].id}
                   ELSE assigned
    /\ trip' = IF impl = "p3" THEN NextTrip(op, id, body, out) ELSE NoTrip
    /\ UNCHANGED <<impl, race>>

\* one request handled, within the bounds of the model
Handle(op, id, body, readOk, writeOk, t, out) ==
    /\ Len(out.file) <= MaxTasks
    /\ Len(out.mem) <= MaxTasks
    /\ IdsBounded(out.file)
    /\ Respond(op, id, body, readOk, writeOk, t, out)

\* one GET /tasks handled: the response is recorded, the store is as the
\* handler leaves it
HandleList(q, readOk, out) ==
    /\ file' = out.file
    /\ mem' = out.mem
    /\ last' = [op |-> "list", id |-> <<>>, body |-> NoBody, query |-> q,
                readOk |-> readOk, writeOk |-> TRUE, status |-> out.status,
                data |-> out.data, count |-> out.count]
    /\ trip' = NoTrip
    /\ UNCHANGED <<impl, now, assigned, race>>

ListP0(io) ==
    /\ impl = "p0"
    /\ \E q \in SentQueries(impl), r \in io :
        HandleList(q, r, P0List(file, q, r))

ListP2(io) ==
    /\ impl = "p2"
    /\ \E q \in SentQueries(impl), r \in io :
        HandleList(q, r, P2List(file, q, r))

ListP3 ==
    /\ impl = "p3"
    /\ \E q \in SentQueries(impl) :
        HandleList(q, TRUE, P3List(file, mem, q))

GetP0(io) ==
    /\ impl = "p0"
    /\ \E id \in SentIds(impl), r \in io :
        Handle("get", id, NoBody, r, TRUE, now, P0GetById(file, id, r))

CreateP0(io) ==
    /\ impl = "p0"
    /\ \E b \in SentCreates(impl), r \in io, w \in io,
          t1 \in Clock(now) : \E t2 \in Clock(t1) :
        Handle("create", <<>>, b, r, w, t2, P0Create(file, b, r, w, t1, t2))

UpdateP0(io) ==
    /\ impl = "p0"
    /\ \E id \in SentIds(impl), b \in SentUpdates(impl), r \in io,
          w \in io, t \in Clock(now) :
        Handle("update", id, b, r, w, t, P0Update(file, id, b, r, w, t))

DeleteP0(io) ==
    /\ impl = "p0"
    /\ \E id \in SentIds(impl), r \in io, w \in io :
        Handle("delete", id, NoBody, r, w, now, P0Delete(file, id, r, w))

GetP2(io) ==
    /\ impl = "p2"
    /\ \E id \in SentIds(impl), r \in io :
        Handle("get", id, NoBody, r, TRUE, now, P2GetById(file, id, r))

CreateP2(io) ==
    /\ impl = "p2"
    /\ \E b \in SentCreates(impl), r \in io, w \in io,
          t1 \in Clock(now) : \E t2 \in Clock(t1) :
        Handle("create", <<>>, b, r, w, t2, P2Create(file, b, r, w, t1, t2))

UpdateP2(io) ==
    /\ impl = "p2"
    /\ \E id \in SentIds(impl), b \in SentUpdates(impl), r \in io,
          w \in io, t \in Clock(now) :
        Handle("update", id, b, r, w, t, P2Update(file, id, b, r, w, t))

DeleteP2(io) ==
    /\ impl = "p2"
    /\ \E id \in SentIds(impl), r \in io, w \in io :
        Handle("delete", id, NoBody, r, w, now, P2Delete(file, id, r, w))

GetP3 ==
    /\ impl = "p3"
    /\ \E id \in SentIds(impl) :
        Handle("get", id, NoBody, TRUE, TRUE, now, P3GetById(file, mem, id))

CreateP3(io) ==
    /\ impl = "p3"
    /\ \E b \in SentCreates(impl), w \in io,
          t1 \in Clock(now) : \E t2 \in Clock(t1) :
        Handle("create", <<>>, b, TRUE, w, t2,
               P3Create(file, mem, b, w, t1, t2))

UpdateP3(io) ==
    /\ impl = "p3"
    /\ \E id \in SentIds(impl), b \in SentUpdates(impl), w \in io,
          t \in Clock(now) :
        Handle("update", id, b, TRUE, w, t, P3Update(file, mem, id, b, w, t))

DeleteP3(io) ==
    /\ impl = "p3"
    /\ \E id \in SentIds(impl), w \in io :
        Handle("delete", id, NoBody, TRUE, w, now,
               P3Delete(file, mem, id, w))

\* every request finds the store readable and writable
Next ==
    \/ GetP0(IoOk) \/ CreateP0(IoOk) \/ UpdateP0(IoOk) \/ DeleteP0(IoOk)
    \/ GetP2(IoOk) \/ CreateP2(IoOk) \/ UpdateP2(IoOk) \/ DeleteP2(IoOk)
    \/ GetP3 \/ CreateP3(IoOk) \/ UpdateP3(IoOk) \/ DeleteP3(IoOk)
    \/ ListP0(IoOk) \/ ListP2(IoOk) \/ ListP3

Spec == Init /\ [][Next]_vars

\* PUT /tasks/:id of part_002 with a valid body that carries a createdAt
UpdateP2Stamped(io) ==
    /\ impl = "p2"
    /\ \E id \in SentIds(impl), r \in io, w \in io, t \in Clock(now),
          b \in {[Plain("b", "d", "completed", "low")
                    EXCEPT !.createdAt = LateStamp]} :
        Handle("update", id, b, r, w, t, P2Update(file, id, b, r, w, t))

\* POST /tasks of part_003 with a valid body
CreateP3Valid(io) ==
    /\ impl = "p3"
    /\ \E w \in io, b \in {Plain("a", "d", "pending", "low")},
          t1 \in Clock(now) : \E t2 \in Clock(t1) :
        Handle("create", <<>>, b, TRUE, w, t2,
               P3Create(file, mem, b, w, t1, t2))

\* PUT /tasks/:id of part_003 with a valid body
UpdateP3Valid(io) ==
    /\ impl = "p3"
    /\ \E id \in SentIds(impl), w \in io, t \in Clock(now),
          b \in {Plain("b", "d", "completed", "low")} :
        Handle("update", id, b, TRUE, w, t, P3Update(file, mem, id, b, w, t))

\* a store that may fail to be read or written
IoFails == BOOLEAN

\* the same service in a hostile environment: any read or write of the file
\* may fail, and part_002's PUT bodies carry a createdAt.  The requests are
\* fewer than in Next: part_003 is sent valid bodies only.
NextHostile ==
    \/ GetP0(IoFails) \/ ListP0(IoFails) \/ CreateP0(IoFails)
    \/ DeleteP0(IoFails)
    \/ GetP2(IoFails) \/ ListP2(IoFails) \/ CreateP2(IoFails)
    \/ UpdateP2Stamped(IoFails) \/ DeleteP2(IoFails)
    \/ GetP3 \/ ListP3 \/ CreateP3Valid(IoFails) \/ UpdateP3Valid(IoFails)
    \/ DeleteP3(IoFails)

SpecHostile == Init /\ [][NextHostile]_vars

----------------------------------------------------------------------------
(* Two requests handled concurrently.  Node runs a handler without         *)
(* interruption up to its next `await`; the other request's handler may    *)
(* run while it is suspended.  part_002's POST handler is suspended at     *)
(* `await getAllTasks()` and at `await writeTasks(tasks)`; the handlers of *)
(* part_003 hold no `await` and use writeFileSync.                         *)

Slots == {1, 2}

AllIdle == \A r \in Slots : race.slots[r].stage = "idle"
AllDone == \A r \in Slots : race.slots[r].stage = "done"

\* slot r becomes sl; the first arrival records the store it finds
RaceWith(r, sl) ==
    [base |-> IF AllIdle THEN [file |-> file, mem |-> mem] ELSE race.base,
     slots |-> [race.slots EXCEPT ![r] = sl]]

\* the POST /tasks bodies of the concurrent requests to part_002
RacePosts ==
    {WithUsers(Plain("a", "d", "pending", "low")),
     WithUsers(Plain("b", "d", "completed", "low")),
     Plain(Absent, "d", "pending", "low")}

\* POST /tasks of part_002 up to the end of `await getAllTasks()`: the body
\* is validated and the file is read into the handler's `tasks`
PostReadP2(r) ==
    /\ impl = "p2"
    /\ race.slots[r].stage = "idle"
    /\ \E b \in RacePosts :
        race' = RaceWith(r,
            IF validateTaskData(b)
            THEN [NoSlot EXCEPT !.stage = "flight", !.op = "create",
                                !.body = b, !.seen = getAllTasks(file, TRUE)]
            ELSE [NoSlot EXCEPT !.stage = "done", !.op = "create",
                                !.body = b, !.status = 400])
    /\ UNCHANGED <<impl, file, mem, now, last, assigned, trip>>

\* the rest of the handler: the new record is built from the `tasks` that
\* were read, and `tasks` is written over the file
PostWriteP2(r) ==
    /\ impl = "p2"
    /\ race.slots[r].stage = "flight"
    /\ \E t1 \in Clock(now) : \E t2 \in Clock(t1) :
        LET sl == race.slots[r]
            out == P2Create(sl.seen, sl.body, TRUE, TRUE, t1, t2)
        IN  /\ file' = IF out.status = 201 THEN out.file ELSE file
            /\ now' = t2
            /\ race' = RaceWith(r,
                    [sl EXCEPT !.stage = "done", !.t1 = t1, !.t2 = t2,
                               !.status = out.status, !.data = out.data])
    /\ UNCHANGED <<impl, mem, last, assigned, trip>>

\* a request to part_003: a POST, a PUT or a DELETE
Request(op, id, body) == [op |-> op, id |-> id, body |-> body]

RaceRequests ==
    {Request("create", <<>>, Plain("a", "d", "pending", "low")),
     Request("update", <<"1">>, Plain("b", "d", "completed", "low")),
     Request("update", NumberToString(StartTime),
             Plain("b", "d", "completed", "low")),
     Request("delete", <<"1">>, NoBody)}

\* the handler of request q run on the array m, the clock showing t1, t2
P3Apply(f, m, q, t1, t2) ==
    CASE q.op = "create" -> P3Create(f, m, q.body, TRUE, t1, t2)
      [] q.op = "update" -> P3Update(f, m, q.id, q.body, TRUE, t2)
      [] q.op = "delete" -> P3Delete(f, m, q.id, TRUE)

\* the array a handler would work on had it copied it when its request
\* arrived
P3TasksAtArrival(m, seen) == seen

\* `tasks`: the array a handler of part_003 works on is the module's, as
\* it is when the handler runs
P3Tasks(m, seen) == m

\* a request to part_003 arrives (its body is being read)
ArriveP3(r) ==
    /\ impl = "p3"
    /\ race.slots[r].stage = "idle"
    /\ \E q \in RaceRequests :
        race' = RaceWith(r,
            [NoSlot EXCEPT !.stage = "flight", !.op = q.op, !.id = q.id,
                           !.body = q.body, !.seen = mem])
    /\ UNCHANGED <<impl, file, mem, now, last, assigned, trip>>

\* its handler runs, from its first line to its response
RunP3(r) ==
    /\ impl = "p3"
    /\ race.slots[r].stage = "flight"
    /\ \E t1 \in Clock(now) : \E t2 \in Clock(t1) :
        LET sl == race.slots[r]
            out == P3Apply(file, P3Tasks(mem, sl.seen), sl, t1, t2)
        IN  /\ file' = out.file
            /\ mem' = out.mem
            /\ now' = t2
            /\ race' = RaceWith(r,
                    [sl EXCEPT !.stage = "done", !.t1 = t1, !.t2 = t2,
                               !.status = out.status, !.data = out.data])
    /\ UNCHANGED <<impl, last, assigned, trip>>

NextRace ==
    \E r \in Slots :
        PostReadP2(r) \/ PostWriteP2(r) \/ ArriveP3(r) \/ RunP3(r)

SpecRace == Init /\ [][NextRace]_vars

----------------------------------------------------------------------------
(* Requests to part_002 whose bodies carry subtasks.                       *)

\* a subtask as a client sends it: a title, with or without an id
SentSubtask(id) == Subtask(id, "s", Absent, FALSE)

\* the subtasks keys of the bodies: none, two subtasks without ids, two
\* subtasks with one id, two subtasks with two ids
SentSubtasks ==
    {NoSubtasks,
     SubtaskArray(<<SentSubtask(<<>>), SentSubtask(<<>>)>>),
     SubtaskArray(<<SentSubtask(<<"1", ".", "1">>),
                    SentSubtask(<<"1", ".", "1">>)>>),
     SubtaskArray(<<SentSubtask(<<"1", ".", "1">>),
                    SentSubtask(<<"1", ".", "2">>)>>)}

CreateP2Sub(io) ==
    /\ impl = "p2"
    /\ \E sub \in SentSubtasks, r \in io, w \in io,
          t1 \in Clock(now) : \E t2 \in Clock(t1) :
        LET b == [WithUsers(Plain("a", "d", "pending", "low"))
                    EXCEPT !.subtasks = sub]
        IN  Handle("create", <<>>, b, r, w, t2,
                   P2Create(file, b, r, w, t1, t2))

UpdateP2Sub(io) ==
    /\ impl = "p2"
    /\ \E id \in {<<"1">>, <<"3">>}, sub \in SentSubtasks, r \in io,
          w \in io, t \in Clock(now) :
        LET b == [Plain("b", "d", "completed", "low") EXCEPT !.subtasks = sub]
        IN  Handle("update", id, b, r, w, t, P2Update(file, id, b, r, w, t))

NextSubtasks == CreateP2Sub(IoOk) \/ UpdateP2Sub(IoOk)

SpecSubtasks == Init /\ [][NextSubtasks]_vars

----------------------------------------------------------------------------
(* part_000 and src/routes/tasks.js over any data/tasks.json: the ids of   *)
(* the file the server finds are numbers, strings of digits, other         *)
(* strings, or null.                                                       *)

AnyIds == {Num(1), Num(2), Str(<<"2">>), Str(<<"x">>), Null}

AnyFiles ==
    {<<>>} \cup {<<SeedTask(a, NoUser)>> : a \in AnyIds}
        \cup {<<SeedTask(a, NoUser), SeedTask(b, NoUser)>> :
                a \in AnyIds, b \in AnyIds}

InitSeeded ==
    /\ impl = "p0"
    /\ file \in AnyFiles
    /\ mem = <<>>
    /\ now = StartTime
    /\ last = NoRequest
    /\ assigned = {}
    /\ trip = NoTrip
    /\ race = NoRace

\* POST /tasks of part_000 with a valid body, on a file of any ids
CreateP0Seeded ==
    /\ impl = "p0"
    /\ Len(file) <= MaxTasks
    /\ \E b \in {Plain("a", "d", "pending", "low")},
          t1 \in Clock(now) : \E t2 \in Clock(t1) :
        Respond("create", <<>>, b, TRUE, TRUE, t2,
                P0Create(file, b, TRUE, TRUE, t1, t2))

\* the ReferenceError's message: src/routes/tasks.js calls deleteTask, and
\* neither defines nor imports a function of that name
deleteTaskError == "deleteTask is not defined"

\* the catch block of the DELETE handler
RoutesDeleteCaught(message) ==
    IF message = "Task not found" THEN 404 ELSE 500

\* DELETE /tasks/:id of src/routes/tasks.js: `await deleteTask(id)` throws
\* inside the try block, before the store is read
RoutesDelete(f, id) ==
    Outcome(RoutesDeleteCaught(deleteTaskError), <<>>, f, <<>>)

DeleteRoutes ==
    /\ impl = "p0"
    /\ \E id \in {<<"1">>, <<"2">>, <<"x">>, <<"9">>} :
        Respond("delete", id, NoBody, TRUE, TRUE, now, RoutesDelete(file, id))

NextSeeded == CreateP0Seeded \/ DeleteRoutes

SpecSeeded == InitSeeded /\ [][NextSeeded]_vars

----------------------------------------------------------------------------
(* The collection each implementation consults, and the POST handler by   *)
(* implementation.                                                         *)

Collection == IF impl = "p3" THEN mem ELSE file

Create(f, m, b, readOk, writeOk, t1, t2) ==
    CASE impl = "p0" -> P0Create(f, b, readOk, writeOk, t1, t2)
      [] impl = "p2" -> P2Create(f, b, readOk, writeOk, t1, t2)
      [] impl = "p3" -> P3Create(f, m, b, writeOk, t1, t2)

\* the textual forms of the ids of the records of ts (null and undefined
\* have none)
IdTexts(ts) ==
    {StringOf(ts[i].id) : i \in {j \in 1..Len(ts) : ~ToStringThrows(ts[j].id)}}

----------------------------------------------------------------------------
(* Properties.                                                             *)

\* a body with a non-empty title and description and a status and priority
\* of the enumerations
RequiredFieldsValid(b) ==
    /\ ~Falsy(b.title)
    /\ ~Falsy(b.description)
    /\ b.status \in validStatuses
    /\ b.priority \in validPriorities

\* C1: in part_002 and part_003, a POST /tasks whose body holds a valid
\* title, description, status and priority and nothing else responds 201
\* with a record whose id differs from the id of every record that was in
\* the collection before the request.
C1_CreateGivesNewId ==
    [][(/\ impl \in {"p2", "p3"}
        /\ last'.op = "create"
        /\ last'.body \in PlainBodies
        /\ RequiredFieldsValid(last'.body))
            => /\ last'.status = 201
               /\ \A i \in 1..Len(Collection) :
                    Collection[i].id # last'.data[1].id]_vars

\* C2: in part_000 and part_002, the id a Create gives differs from every
\* id given by an earlier Create, also after a Delete.
C2_IdNeverReused ==
    [][(impl \in {"p0", "p2"} /\ last'.op = "create" /\ last'.status = 201)
            => last'.data[1].id \notin assigned]_vars

\* C3: in part_000, part_002 and part_003, a POST /tasks whose body has no
\* title (absent or empty) responds 400, whatever else the body holds and
\* whether or not the file can be read and written, and leaves the file
\* (and part_003's array) as they were.
C3_NoTitleRejected ==
    \A b \in {x \in PlainBodies : Falsy(x.title)},
       readOk \in BOOLEAN, writeOk \in BOOLEAN :
        LET out == Create(file, mem, b, readOk, writeOk, now, now)
        IN  /\ out.status = 400
            /\ out.file = file
            /\ out.mem = mem

\* C3's case: a POST without title was answered 400 with records stored
C3_Witness ==
    /\ last.op = "create"
    /\ Falsy(last.body.title)
    /\ ~Falsy(last.body.description)
    /\ last.status = 400
    /\ Len(Collection) > 0

\* C4: in part_000 and part_002, after a POST /tasks responded 201 with a
\* record r, GET /tasks/:id with the textual form of r.id (no request in
\* between) responds 200 with a record equal to r.
C4_GetAfterCreate ==
    [][(/\ impl \in {"p0", "p2"}
        /\ last.op = "create"
        /\ last.status = 201
        /\ last'.op = "get"
        /\ last'.id = StringOf(last.data[1].id))
            => /\ last'.status = 200
               /\ last'.data = last.data]_vars

\* C5: in part_002 and part_003, a PUT /tasks/:id for an existing task whose
\* body carries a status outside the enumeration (title, description and
\* priority present and valid) responds 400 and leaves the store unchanged.
C5_BadStatusRejected ==
    [][(/\ impl \in {"p2", "p3"}
        /\ last'.op = "update"
        /\ last'.id \in IdTexts(Collection)
        /\ RequiredFieldsValid([last'.body EXCEPT !.status = "pending"])
        /\ last'.body.status \notin validStatuses \cup {Absent})
            => /\ last'.status = 400
               /\ file' = file
               /\ mem' = mem]_vars

\* C6: in part_000, part_002 and part_003, of two consecutive
\* DELETE /tasks/:id for the id of a task of the collection, the first
\* responds 200 with that task's record and the second responds 404.
C6_DeleteTwice ==
    [][/\ (last'.op = "delete" /\ last'.id \in IdTexts(Collection))
            => /\ last'.status = 200
               /\ last'.data = Sent(Collection[FindText(Collection, last'.id)])
       /\ (/\ last.op = "delete"
           /\ last.status = 200
           /\ last'.op = "delete"
           /\ last'.id = last.id)
            => last'.status = 404]_vars

\* C7: in part_000, a PUT /tasks/:id that responds 200 leaves the stored
\* record with an updatedAt equal to the time of the update.
C7_UpdateStampsRecord ==
    [][(impl = "p0" /\ last'.op = "update" /\ last'.status = 200)
            => file'[FindText(file, last'.id)].updatedAt = now']_vars

\* the title, description, status, priority and (non-empty) assignedTo of
\* body b are those of record r
Reflects(r, b) ==
    /\ r.title = b.title
    /\ r.description = b.description
    /\ r.status = b.status
    /\ r.priority = b.priority
    /\ ~Falsy(b.assignedTo) => r.assignedTo = b.assignedTo

\* C8 (as stated): in part_003, after Create, GetById, Update, GetById on
\* one task, the second GetById returns the fields given in the Update and
\* an updatedAt strictly later than the one the first GetById returned.
C8_StrictlyLater ==
    (impl = "p3" /\ last.op = "create" /\ last.status = 201) =>
        LET id == StringOf(last.data[1].id)
            g1 == P3GetById(file, mem, id)
        IN  \A b \in P3Bodies, t \in Clock(now) :
                LET u == P3Update(file, mem, id, b, TRUE, t)
                    g2 == P3GetById(u.file, u.mem, id)
                IN  u.status = 200 =>
                        /\ g1.status = 200
                        /\ g2.status = 200
                        /\ Reflects(g2.data[1], b)
                        /\ g2.data[1].updatedAt > g1.data[1].updatedAt

\* C8 (amended): ... the second GetById returns the title, description,
\* status, priority and non-empty assignedTo given in the Update and an
\* updatedAt that is the time of the Update: not earlier than the one the
\* first GetById returned, and strictly later when the Update reads a later
\* clock value than the Create did.  It holds of the request sequences the
\* model runs (trip) and of every Update that could follow a Create.
C8_NotEarlier ==
    /\ (impl = "p3" /\ last.op = "create" /\ last.status = 201) =>
        LET id == StringOf(last.data[1].id)
            g1 == P3GetById(file, mem, id)
        IN  \A b \in P3Bodies, t \in Clock(now) :
                LET u == P3Update(file, mem, id, b, TRUE, t)
                    g2 == P3GetById(u.file, u.mem, id)
                IN  u.status = 200 =>
                        /\ g1.status = 200
                        /\ g2.status = 200
                        /\ Reflects(g2.data[1], b)
                        /\ g2.data[1].updatedAt = t
                        /\ g2.data[1].updatedAt >= g1.data[1].updatedAt
                        /\ t > now =>
                            g2.data[1].updatedAt > g1.data[1].updatedAt
    /\ trip.stage = 4 =>
        /\ trip.first # <<>>
        /\ trip.second # <<>>
        /\ Reflects(trip.second[1], trip.patch)
        /\ trip.second[1].updatedAt >= trip.first[1].updatedAt

\* C8's case: a round trip was run whose Update came later than its Create
C8_Witness ==
    /\ impl = "p3"
    /\ trip.stage = 4
    /\ trip.second # <<>>
    /\ trip.first # <<>>
    /\ trip.second[1].title # trip.first[1].title
    /\ trip.second[1].title = trip.patch.title
    /\ trip.second[1].updatedAt > trip.first[1].updatedAt

\* C9: in part_002, no two records of the stored collection have the same id.
C9_UniqueIds ==
    impl = "p2" =>
        \A i, j \in 1..Len(file) : i # j => file[i].id # file[j].id

\* the status and priority of every record of ts are of the enumerations
EnumsValid(ts) ==
    \A i \in 1..Len(ts) :
        ts[i].status \in validStatuses /\ ts[i].priority \in validPriorities

\* C10: in part_002, every stored record has a status and a priority of the
\* enumerations, in every state Create, Update and Delete requests reach,
\* and whatever the body of the next Create or Update is.
C10_EnumsKept ==
    impl = "p2" =>
        /\ EnumsValid(file)
        /\ \A b \in PlainBodies :
            /\ EnumsValid(P2Create(file, WithUsers(b), TRUE, TRUE, now,
                                   now).file)
            /\ \A id \in IdTexts(file) :
                EnumsValid(P2Update(file, id, b, TRUE, TRUE, now).file)

\* C10's case: an update with a status outside the enumeration was refused
\* after another update had been stored
C10_Witness ==
    /\ impl = "p2"
    /\ last.op = "update"
    /\ last.body.status = "bogus"
    /\ last.status = 400
    /\ \E i \in 1..Len(file) :
        file[i].status = "completed" /\ file[i].updatedAt > file[i].createdAt

\* no record of ts was updated before it was created
StampsOrdered(ts) == \A i \in 1..Len(ts) : ts[i].updatedAt >= ts[i].createdAt

\* C11: in part_002, with a clock that never goes back, every stored record
\* has updatedAt >= createdAt, in every state Create and Update requests
\* reach (a body may carry keys of its own, createdAt among them).
C11_UpdatedNotBeforeCreated == impl = "p2" => StampsOrdered(file)

\* a PUT with body b made record new of record old: the keys b names have
\* b's values, every other key but updatedAt has old's
FrameKept(old, new, b) ==
    /\ new.id = (IF b.id = Undef THEN old.id ELSE b.id)
    /\ new.title = (IF b.title = Absent THEN old.title ELSE b.title)
    /\ new.description =
            (IF b.description = Absent THEN old.description
             ELSE b.description)
    /\ new.status = (IF b.status = Absent THEN old.status ELSE b.status)
    /\ new.priority =
            (IF b.priority = Absent THEN old.priority ELSE b.priority)
    /\ new.assignedTo =
            (IF b.assignedTo = Absent THEN old.assignedTo ELSE b.assignedTo)
    /\ new.createdBy =
            (IF b.createdBy = NoUser THEN old.createdBy ELSE b.createdBy)
    /\ new.assignedBy =
            (IF b.assignedBy = NoUser THEN old.assignedBy ELSE b.assignedBy)
    /\ new.subtasks =
            (IF b.subtasks = NoSubtasks THEN old.subtasks ELSE b.subtasks)
    /\ new.createdAt =
            (IF b.createdAt = NoStamp THEN old.createdAt ELSE b.createdAt)

\* C12: in part_002 and part_003, after a PUT /tasks/:id that responds 200,
\* every field the body names has the body's value and every field it does
\* not name, other than updatedAt, has the value it had before.
C12_PutFrame ==
    [][(impl \in {"p2", "p3"} /\ last'.op = "update" /\ last'.status = 200)
            => LET i == FindText(Collection, last'.id)
                   after == IF impl = "p3" THEN mem' ELSE file'
               IN  /\ i > 0
                   /\ FrameKept(Collection[i], after[i], last'.body)
                   /\ FrameKept(Collection[i], last'.data[1], last'.body)]_vars

\* a body that holds a status and nothing else
StatusOnly(b) == b = [NoBody EXCEPT !.status = b.status]

\* C13: in part_002, a PUT /tasks/:id for an existing task whose body holds
\* only a status of the enumeration (no title, description or priority)
\* responds 200 and the stored record has the new status.
C13_PartialUpdate ==
    [][(/\ impl = "p2"
        /\ last'.op = "update"
        /\ last'.id \in IdTexts(file)
        /\ StatusOnly(last'.body)
        /\ last'.body.status \in validStatuses)
            => /\ last'.status = 200
               /\ file'[FindText(file, last'.id)].status
                    = last'.body.status]_vars

\* C14: in part_002 and part_003, a PUT /tasks/:id whose id is the id of no
\* record of the collection responds 404, whatever its body is, and leaves
\* the stored collection as it was.
C14_PutNotFound ==
    [][(/\ impl \in {"p2", "p3"}
        /\ last'.op = "update"
        /\ last'.id \notin IdTexts(Collection))
            => /\ last'.status = 404
               /\ file' = file
               /\ mem' = mem]_vars

\* C15: in part_000, a DELETE /tasks/:id that responds 200 removes exactly
\* one record, the first whose id has the requested textual form, and
\* returns it; every other record stays, unchanged and in the same order.
C15_DeleteFrame ==
    [][(impl = "p0" /\ last'.op = "delete" /\ last'.status = 200)
            => \E i \in 1..Len(file) :
                /\ TextEq(file[i].id, last'.id)
                /\ \A j \in 1..(i - 1) : ~TextEq(file[j].id, last'.id)
                /\ last'.data = <<file[i]>>
                /\ Len(file') = Len(file) - 1
                /\ \A j \in 1..(i - 1) : file'[j] = file[j]
                /\ \A j \in i..Len(file') : file'[j] = file[j + 1]]_vars

\* C15's case: the first of two records was deleted and the second stays
C15_Witness ==
    /\ impl = "p0"
    /\ last.op = "delete"
    /\ last.status = 200
    /\ last.data[1].id = Str(<<"1">>)
    /\ Len(file) = 1
    /\ file[1].id = Num(2)

\* GET /tasks?status=s and no other parameter
StatusQuery(s) == Query(s, Absent, Absent, Absent, Absent)

\* the status values of a query: of the enumeration, outside it, empty
QueryStatuses == {"pending", "completed", "cancelled", "bogus", ""}

\* data holds exactly the records of ts whose status is s, in the order of ts
ExactlyWithStatus(data, ts, s) ==
    LET M == {i \in 1..Len(ts) : ts[i].status = s}
        Nth(k) == CHOOSE i \in M : Cardinality({j \in M : j <= i}) = k
    IN  /\ Len(data) = Cardinality(M)
        /\ \A k \in 1..Len(data) : data[k] = ts[Nth(k)]

\* GET /tasks of part_000 (and src/routes/tasks.js) or part_002
ListOf(f, q, readOk) ==
    IF impl = "p2" THEN P2List(f, q, readOk) ELSE P0List(f, q, readOk)

\* C16 (as stated): GET /tasks?status=s of part_000 and part_002 returns
\* exactly the stored records whose status equals s, in the stored order,
\* with count equal to their number, for every s.
C16_StatusFilter ==
    (/\ impl \in {"p0", "p2"}
     /\ last.op = "list"
     /\ last.query.status # Absent
     /\ last.query = StatusQuery(last.query.status))
        => /\ last.status = 200
           /\ ExactlyWithStatus(last.data, file, last.query.status)
           /\ last.count = Len(last.data)

\* C16 (amended): with the store file readable, GET /tasks?status=s returns
\* exactly the stored records whose status equals s, in the stored order,
\* with count equal to their number, for every non-empty s; with an empty
\* s no filter is applied and every stored record is returned.
C16_StatusFilterNonEmpty ==
    impl \in {"p0", "p2"} =>
        /\ \A s \in QueryStatuses :
            LET out == ListOf(file, StatusQuery(s), TRUE)
            IN  /\ out.status = 200
                /\ out.count = Len(out.data)
                /\ s # "" => ExactlyWithStatus(out.data, file, s)
                /\ s = "" => out.data = file
        /\ (last.op = "list" /\ last.query = StatusQuery(last.query.status))
            => /\ last.status = 200
               /\ last.count = Len(last.data)
               /\ last.query.status # ""
                    => ExactlyWithStatus(last.data, file, last.query.status)

\* C16's case: a GET /tasks?status=completed returned the second of two
\* stored records and not the first
C16_Witness ==
    /\ impl = "p2"
    /\ last.op = "list"
    /\ last.query = StatusQuery("completed")
    /\ Len(file) = 2
    /\ file[1].status = "pending"
    /\ last.data = <<file[2]>>
    /\ last.count = 1

\* C17: in part_000, GET /tasks responds 200 whatever the status, priority
\* and assignedTo parameters are, whenever the store file can be read, in
\* every state Create, Update and Delete requests reach.
C17_ListNeverFails ==
    (impl = "p0" /\ last.op = "list" /\ last.readOk) => last.status = 200

\* the queries of GET /tasks over status, priority and assignedTo
AllQueries ==
    {Query(s, p, a, Absent, Absent) :
        s \in {Absent, "", "pending", "completed"}, p \in {Absent, "low"},
        a \in {Absent, "bob", "BO"}}

\* C18: in src/routes/tasks.js (the same text as part_000), when reading or
\* parsing the store file fails, GET /tasks responds 200 with an empty data
\* list and count 0, whatever the query, and GET /tasks/:id responds 404.
C18_ReadFailureIsEmpty ==
    impl = "p0" =>
        /\ \A q \in AllQueries :
            LET out == P0List(file, q, FALSE)
            IN  out.status = 200 /\ out.data = <<>> /\ out.count = 0
        /\ \A id \in SentIds(impl) \cup IdTexts(file) :
            P0GetById(file, id, FALSE).status = 404
        /\ (last.op = "list" /\ ~last.readOk)
            => last.status = 200 /\ last.data = <<>> /\ last.count = 0
        /\ (last.op = "get" /\ ~last.readOk) => last.status = 404

\* C18's case: a GET /tasks?assignedTo=BO whose read failed was answered
\* with an empty list while the file held a record without assignee
C18_Witness ==
    /\ impl = "p0"
    /\ last.op = "list"
    /\ ~last.readOk
    /\ last.query.assignedTo = "BO"
    /\ last.status = 200
    /\ last.data = <<>>
    /\ \E i \in 1..Len(file) : file[i].assignedTo = NullText

\* a body that part_002's POST accepts
P2Accepts(b) ==
    /\ validateTaskData(b)
    /\ ~P2UserRejected(b.createdBy)
    /\ ~P2UserRejected(b.assignedBy)

\* C19: in part_002, a valid POST /tasks during which the read of the store
\* file fails responds 500, and the records that were in the file before
\* the request are all still in it afterwards.
C19_ReadErrorSurfaced ==
    [][(/\ impl = "p2"
        /\ last'.op = "create"
        /\ ~last'.readOk
        /\ P2Accepts(last'.body))
            => /\ last'.status = 500
               /\ \A i \in 1..Len(file) :
                    \E j \in 1..Len(file') : file'[j] = file[i]]_vars

\* C20: in part_003, when a Create, Update or Delete responds 500 because
\* writing the store file failed, the collection that later GET /tasks and
\* GET /tasks/:id serve is the one served before the failed request.
C20_NoPartialFailure ==
    [][(/\ impl = "p3"
        /\ last'.op \in {"create", "update", "delete"}
        /\ ~last'.writeOk
        /\ last'.status = 500)
            => /\ mem' = mem
               /\ \A q \in AllQueries :
                    P3List(file', mem', q).data = P3List(file, mem, q).data]_vars

\* C21: in part_002, when two concurrent POST /tasks requests have both
\* responded 201, the stored collection holds both created records and
\* their ids differ, whatever the interleaving of their reads and writes.
C21_NoLostUpdate ==
    (impl = "p2" /\ AllDone
        /\ \A r \in Slots : race.slots[r].status = 201)
    => /\ \A r \in Slots :
            \E j \in 1..Len(file) : file[j] = race.slots[r].data[1]
       /\ race.slots[1].data[1].id # race.slots[2].data[1].id

\* the ids of the subtasks of t are pairwise different
SubtaskIdsDiffer(t) ==
    \A i, j \in 1..Len(t.subtasks.items) :
        i # j => t.subtasks.items[i].id # t.subtasks.items[j].id

\* C22: in part_002, after any sequence of Create and Update requests the
\* ids of the subtasks of every stored task are pairwise different within
\* that task, and a Create gives the n-th subtask (from 1) of the task it
\* creates the id "<taskId>.<n>".
C22_SubtaskIds ==
    impl = "p2" =>
        /\ \A k \in 1..Len(file) : SubtaskIdsDiffer(file[k])
        /\ (last.op = "create" /\ last.status = 201) =>
                \A n \in 1..Len(last.data[1].subtasks.items) :
                    last.data[1].subtasks.items[n].id
                        = StringOf(last.data[1].id) \o <<".">>
                            \o NumberToString(n)

\* the records of ts whose id has the text id
WithIdText(ts, id) ==
    {i \in 1..Len(ts) : ~ToStringThrows(ts[i].id) /\ StringOf(ts[i].id) = id}

\* C23: DELETE /tasks/:id of src/routes/tasks.js, for an id that is in the
\* collection, responds 200 with the deleted record and removes it from the
\* store; for an id that is not in the collection it responds 404.
C23_RoutesDelete ==
    [][(impl = "p0" /\ last'.op = "delete")
        => IF WithIdText(file, last'.id) # {}
           THEN /\ last'.status = 200
                /\ \E i \in WithIdText(file, last'.id) :
                    /\ last'.data = <<file[i]>>
                    /\ file' = Splice(file, i)
           ELSE last'.status = 404]_vars

\* parseInt of the id is a number
NumericLike(v) == ParseInt(v).t = "num"

\* the greatest parseInt value among the numeric-like ids of ts
GreatestNumeric(ts) ==
    LET numeric == {j \in 1..Len(ts) : NumericLike(ts[j].id)}
        vs == {ParseInt(ts[i].id).n : i \in numeric}
    IN  CHOOSE m \in vs : \A v \in vs : v <= m

C25_SameIdsExist ==
    (impl = "p2" /\ last.op = "get")
    => LET b == Plain("b", "d", "completed", "low")
           put == P2Update(file, last.id, b, TRUE, TRUE, now)
           del == P2Delete(file, last.id, TRUE, TRUE)
       IN  (last.status = 404) <=> (put.status = 404 /\ del.status = 404)

\* the store after the two requests of the concurrent run are handled one
\* at a time, a first and b second, from the store the run started with,
\* each with the clock readings its handler had
Serial(a, b) ==
    LET qa == race.slots[a]
        qb == race.slots[b]
        o1 == P3Apply(race.base.file, race.base.mem, qa, qa.t1, qa.t2)
        o2 == P3Apply(o1.file, o1.mem, qb, qb.t1, qb.t2)
    IN  [file |-> o2.file, mem |-> o2.mem]

\* C26: in part_003, once two concurrent requests (POST, PUT, DELETE; no
\* write fails) have responded, the in-memory collection and the file are
\* what handling the two requests one at a time, in one of the two orders,
\* gives: no update is lost.
C26_Serializable ==
    (impl = "p3" /\ AllDone)
    => [file |-> file, mem |-> mem] \in {Serial(1, 2), Serial(2, 1)}

\* a POST and a PUT of the task the POST creates were in flight together,
\* both succeeded, and the other order would have given another store
C26_Witness ==
    /\ impl = "p3"
    /\ AllDone
    /\ race.slots[1].op = "create" /\ race.slots[1].status = 201
    /\ race.slots[2].op = "update" /\ race.slots[2].status = 200
    /\ race.slots[2].id = race.slots[1].data[1].id.s
    /\ Serial(1, 2) # Serial(2, 1)
    /\ Len(mem) = 3

====
